---- MODULE Spec2Model ----
(***************************************************************************)
(* Model of the Claudix delivery bridge (WebViewService): the registry of  *)
(* webviews, their readiness, the bounded pending-message buffer and the   *)
(* editor-panel map, together with the host events that drive them.        *)
(***************************************************************************)
EXTENDS Integers, Sequences, FiniteSets, TLC

\* ---------------------------------------------------------------- bounds
MaxHandles == 2      \* webview objects the host creates in one behaviour
MaxPosts == 2        \* postMessage calls made after the startup backlog
MaxFailAt == 2       \* a replay may throw at one of its first MaxFailAt sends
MaxInbound == 2      \* inbound messages the registered handler is called for
MaxCalls == 3        \* calls made on the SelectionState in one behaviour
MaxFragments == 3    \* fragments in one content given to the parser

\* ------------------------------------------------------ program constants
MAX_PENDING_MESSAGES == 50

Handles == 1..MaxHandles
NoHandle == 0
NoId == ""                       \* instanceId not passed (or falsy)
\* an editor page named chat is the case in which only the host test of the
\* addressing keeps the panel out of a broadcast
Pages == {"chat"}
InstanceIds == {NoId, "tab"}
NoConfig == [host |-> "none", page |-> "", id |-> ""]

\* A startup backlog is a run of postMessage calls made before the host has
\* resolved any view; it is how the buffer gets to its capacity.
Backlogs == {0, MAX_PENDING_MESSAGES - 1}

VARIABLES
    webviews,           \* Set<Webview>
    readyWebviews,      \* Set<Webview>
    webviewConfigs,     \* Map<Webview, WebviewBootstrapConfig>
    pendingMessages,    \* Array<{type, message}>
    editorPanels,       \* Map<string, WebviewPanel>
    hostState,          \* host side of each webview object
    bootstrap,          \* the config each webview object was registered with
    focused,            \* the editor panel the host showed last (reveal, create)
    posted,             \* history: the messages accepted by postMessage
    handed,             \* history: per webview, the payloads handed to it
    evicted,            \* history: payloads shifted out of a full buffer
    untracked,          \* history: webviews removed from tracking
    raised,             \* whether the last operation let an error reach its caller
    backlog,            \* length of the startup backlog of this behaviour
    messageHandler,     \* whether setMessageHandler has registered a handler
    forwarded,          \* history: the calls the registered handler received
    selectionState,     \* the SelectionState singleton (its four fields)
    lastSelectionSignature,  \* the signature sendSelectionUpdate sent last
    synced,             \* history: the selections of the last syncSelection calls
    consumed,           \* what the last consume() call returned
    calls,              \* history: the calls made on the SelectionState
    rawContent,         \* the fragments given to parseMessageContent
    blocks,             \* what parseMessageContent returned for them
    returned            \* parseMessageContent has returned

vars == <<webviews, readyWebviews, webviewConfigs, pendingMessages, editorPanels,
          hostState, bootstrap, focused, posted, handed, evicted, untracked,
          raised, backlog, messageHandler, forwarded, selectionState,
          lastSelectionSignature, synced, consumed, calls, rawContent,
          blocks, returned>>

\* the variables of the selection wiring and of the content-block parser
selectionVars == <<selectionState, lastSelectionSignature, synced, consumed,
                   calls>>
handlerVars == <<messageHandler, forwarded>>
parserVars == <<rawContent, blocks, returned>>

\* ------------------------------------------------------------- helpers
Min(a, b) == IF a < b THEN a ELSE b

Range(s) == {s[i] : i \in 1..Len(s)}

\* Map.delete / Map.set on a function with a finite domain
MapDelete(map, k) == [x \in (DOMAIN map) \ {k} |-> map[x]]
MapSet(map, k, v) == [x \in (DOMAIN map) \cup {k} |-> IF x = k THEN v ELSE map[x]]

\* the payload postMessage and enqueuePendingMessage build around a message
Payload(m) == [type |-> "from-extension", message |-> m]

\* the n-th message handed to postMessage
Message(n) == [id |-> n]

\* ------------------------------------------------------- WebViewService
\* variant: the host of the config is not looked at
AddressedAnyHost(config) ==
    ~ (config = NoConfig \/ (config.page # "" /\ config.page # "chat"))

\* the addressing test of postMessage and flushPendingMessages (negated skip)
Addressed(config) ==
    ~ (config = NoConfig \/ config.host # "sidebar"
       \/ (config.page # "" /\ config.page # "chat"))

ConfigOf(cfg, w) == IF w \in DOMAIN cfg THEN cfg[w] ELSE NoConfig

\* the webviews the loop of postMessage sends to
PostTargets(wv, rdy, cfg) ==
    {w \in wv : w \in rdy /\ Addressed(ConfigOf(cfg, w))}

\* variant: unshift instead of push
enqueueAtFront(buf, m) ==
    LET pushed == <<Payload(m)>> \o buf
    IN  IF Len(pushed) > MAX_PENDING_MESSAGES THEN Tail(pushed) ELSE pushed

\* variant: pop instead of shift, the newest entry goes
enqueueDropNewest(buf, m) ==
    LET pushed == Append(buf, Payload(m))
    IN  IF Len(pushed) > MAX_PENDING_MESSAGES
        THEN SubSeq(pushed, 1, Len(pushed) - 1) ELSE pushed

enqueuePendingMessage(buf, m) ==
    LET pushed == Append(buf, Payload(m))
    IN  IF Len(pushed) > MAX_PENDING_MESSAGES THEN Tail(pushed) ELSE pushed

\* what the shift of enqueuePendingMessage drops
ShiftedOut(buf, m) ==
    LET pushed == Append(buf, Payload(m))
    IN  IF Len(pushed) > MAX_PENDING_MESSAGES THEN {Head(pushed)} ELSE {}

\* variant: delivered is only set when no send of the call threw
postMessageBufferOnAnyThrow(wv, rdy, cfg, buf, m, throws) ==
    IF wv = {}
    THEN [webviews |-> wv, readyWebviews |-> rdy, webviewConfigs |-> cfg,
          pendingMessages |-> enqueuePendingMessage(buf, m),
          attempted |-> {}, failed |-> {}, buffered |-> TRUE, raised |-> FALSE]
    ELSE LET targets == PostTargets(wv, rdy, cfg)
             toRemove == targets \cap throws
             delivered == targets # {} /\ toRemove = {}
         IN  [webviews |-> wv \ toRemove,
              readyWebviews |-> rdy \ toRemove,
              webviewConfigs |-> [w \in (DOMAIN cfg) \ toRemove |-> cfg[w]],
              pendingMessages |-> IF delivered THEN buf
                                  ELSE enqueuePendingMessage(buf, m),
              attempted |-> targets, failed |-> toRemove,
              buffered |-> ~ delivered, raised |-> FALSE]

\* variant: no try around the send, the first throw ends the loop and the call
postMessageAbortOnThrow(wv, rdy, cfg, buf, m, throws) ==
    IF wv = {}
    THEN [webviews |-> wv, readyWebviews |-> rdy, webviewConfigs |-> cfg,
          pendingMessages |-> enqueuePendingMessage(buf, m),
          attempted |-> {}, failed |-> {}, buffered |-> TRUE, raised |-> FALSE]
    ELSE LET targets == PostTargets(wv, rdy, cfg)
             threw == (targets \cap throws) # {}
             delivered == targets # {} /\ ~ threw
         IN  [webviews |-> wv, readyWebviews |-> rdy, webviewConfigs |-> cfg,
              pendingMessages |-> IF delivered \/ threw THEN buf
                                  ELSE enqueuePendingMessage(buf, m),
              attempted |-> IF threw THEN {} ELSE targets, failed |-> {},
              buffered |-> ~ delivered /\ ~ threw, raised |-> threw]

\* postMessage: throws is the set of webviews whose send throws in this call
postMessage(wv, rdy, cfg, buf, m, throws) ==
    IF wv = {}
    THEN [webviews |-> wv, readyWebviews |-> rdy, webviewConfigs |-> cfg,
          pendingMessages |-> enqueuePendingMessage(buf, m),
          attempted |-> {}, failed |-> {}, buffered |-> TRUE, raised |-> FALSE]
    ELSE LET targets == PostTargets(wv, rdy, cfg)
             toRemove == targets \cap throws
             delivered == (targets \ throws) # {}
         IN  [webviews |-> wv \ toRemove,
              readyWebviews |-> rdy \ toRemove,
              webviewConfigs |-> [w \in (DOMAIN cfg) \ toRemove |-> cfg[w]],
              pendingMessages |-> IF delivered THEN buf
                                  ELSE enqueuePendingMessage(buf, m),
              attempted |-> targets, failed |-> toRemove,
              buffered |-> ~ delivered, raised |-> FALSE]

\* the webviews the outer loop of flushPendingMessages replays to
FlushTargets(rdy, cfg) == {w \in rdy : Addressed(ConfigOf(cfg, w))}

\* variant: the buffer is kept after the replay
flushKeepsBuffer(wv, rdy, cfg, buf, failAt) ==
    IF rdy = {} \/ buf = <<>>
    THEN [webviews |-> wv, readyWebviews |-> rdy, webviewConfigs |-> cfg,
          pendingMessages |-> buf, sent |-> [w \in {} |-> <<>>], failed |-> {}]
    ELSE LET targets == FlushTargets(rdy, cfg)
             broke == {w \in targets : failAt[w] \in 1..Len(buf)}
         IN  [webviews |-> wv \ broke,
              readyWebviews |-> rdy \ broke,
              webviewConfigs |-> [w \in (DOMAIN cfg) \ broke |-> cfg[w]],
              pendingMessages |-> buf,
              sent |-> [w \in targets |->
                          IF w \in broke THEN SubSeq(buf, 1, failAt[w] - 1)
                          ELSE buf],
              failed |-> broke]

\* variant: a send that throws ends the replay to the target, which stays
\* tracked
flushKeepsFailedTarget(wv, rdy, cfg, buf, failAt) ==
    IF rdy = {} \/ buf = <<>>
    THEN [webviews |-> wv, readyWebviews |-> rdy, webviewConfigs |-> cfg,
          pendingMessages |-> buf, sent |-> [w \in {} |-> <<>>], failed |-> {}]
    ELSE LET targets == FlushTargets(rdy, cfg)
             broke == {w \in targets : failAt[w] \in 1..Len(buf)}
         IN  [webviews |-> wv, readyWebviews |-> rdy, webviewConfigs |-> cfg,
              pendingMessages |-> <<>>,
              sent |-> [w \in targets |->
                          IF w \in broke THEN SubSeq(buf, 1, failAt[w] - 1)
                          ELSE buf],
              failed |-> {}]

\* flushPendingMessages: failAt[w] = j > 0 means the j-th send to w throws
flushPendingMessages(wv, rdy, cfg, buf, failAt) ==
    IF rdy = {} \/ buf = <<>>
    THEN [webviews |-> wv, readyWebviews |-> rdy, webviewConfigs |-> cfg,
          pendingMessages |-> buf, sent |-> [w \in {} |-> <<>>], failed |-> {}]
    ELSE LET targets == FlushTargets(rdy, cfg)
             broke == {w \in targets : failAt[w] \in 1..Len(buf)}
         IN  [webviews |-> wv \ broke,
              readyWebviews |-> rdy \ broke,
              webviewConfigs |-> [w \in (DOMAIN cfg) \ broke |-> cfg[w]],
              pendingMessages |-> <<>>,
              sent |-> [w \in targets |->
                          IF w \in broke THEN SubSeq(buf, 1, failAt[w] - 1)
                          ELSE buf],
              failed |-> broke]

\* variant: the webview is marked ready and the buffer is not replayed
markReadyNoFlush(wv, rdy, cfg, buf, w, failAt) ==
    [webviews |-> wv, readyWebviews |-> rdy \cup {w}, webviewConfigs |-> cfg,
     pendingMessages |-> buf, sent |-> [x \in {} |-> <<>>], failed |-> {}]

\* variant: the buffer is replayed before the webview is added to the ready set
markReadyFlushFirst(wv, rdy, cfg, buf, w, failAt) ==
    IF w \in rdy
    THEN [webviews |-> wv, readyWebviews |-> rdy, webviewConfigs |-> cfg,
          pendingMessages |-> buf, sent |-> [x \in {} |-> <<>>], failed |-> {}]
    ELSE LET r == flushPendingMessages(wv, rdy, cfg, buf, failAt)
         IN  [webviews |-> r.webviews, readyWebviews |-> r.readyWebviews \cup {w},
              webviewConfigs |-> r.webviewConfigs,
              pendingMessages |-> r.pendingMessages,
              sent |-> r.sent, failed |-> r.failed]

markWebviewReady(wv, rdy, cfg, buf, w, failAt) ==
    IF w \in rdy
    THEN [webviews |-> wv, readyWebviews |-> rdy, webviewConfigs |-> cfg,
          pendingMessages |-> buf, sent |-> [x \in {} |-> <<>>], failed |-> {}]
    ELSE flushPendingMessages(wv, rdy \cup {w}, cfg, buf, failAt)

\* openEditorPage: key = instanceId || page
KeyOf(page, instanceId) == IF instanceId # NoId THEN instanceId ELSE page

\* the dispose callbacks of resolveWebviewView and openEditorPage
DisposedPanels(panels, boot) ==
    IF boot.host = "editor" THEN MapDelete(panels, boot.id) ELSE panels

\* ------------------------------------------------------- SelectionState
\* null (a selection, an editor, a consume() result that is absent)
Null == [null |-> TRUE]

\* a signature field holding null; serialize never returns the empty string
NoSignature == ""

\* no syncSelection call has been made yet; a call records the selection of
\* its editor (event), the selection of the last call that went on to
\* sendSelectionUpdate (update), and how many messages had been posted before
NoEvent == [none |-> TRUE]
NotSynced == [event |-> NoEvent, update |-> NoEvent, before |-> 0]

\* startColumn ?? 0, endColumn ?? 0
OrZero(selection, field) ==
    IF field \in DOMAIN selection THEN selection[field] ELSE 0

\* SelectionState.serialize: the template string of the six fields
serialize(selection) ==
    selection.filePath \o ":" \o ToString(selection.startLine)
        \o ":" \o ToString(selection.endLine)
        \o ":" \o ToString(OrZero(selection, "startColumn"))
        \o ":" \o ToString(OrZero(selection, "endColumn"))
        \o ":" \o selection.selectedText

\* the state of a freshly constructed SelectionState
NewSelectionState ==
    [lastSelection |-> Null, lastSignature |-> NoSignature,
     pendingAutoInclude |-> FALSE, pendingSignature |-> NoSignature]

\* variant: a set without autoInclude always drops the pending auto-include
setAlwaysClears(ss, selection, autoInclude) ==
    LET stored == IF selection # Null
                  THEN [ss EXCEPT !.lastSelection = selection,
                                  !.lastSignature = serialize(selection)]
                  ELSE [ss EXCEPT !.lastSelection = Null,
                                  !.lastSignature = NoSignature]
    IN  IF selection # Null /\ autoInclude
        THEN [stored EXCEPT !.pendingAutoInclude = TRUE,
                            !.pendingSignature = stored.lastSignature]
        ELSE [stored EXCEPT !.pendingAutoInclude = FALSE,
                            !.pendingSignature = NoSignature]

\* SelectionState.set(selection, {autoInclude})
set(ss, selection, autoInclude) ==
    LET stored == IF selection # Null
                  THEN [ss EXCEPT !.lastSelection = selection,
                                  !.lastSignature = serialize(selection)]
                  ELSE [ss EXCEPT !.lastSelection = Null,
                                  !.lastSignature = NoSignature]
    IN  IF selection # Null /\ autoInclude
        THEN [stored EXCEPT !.pendingAutoInclude = TRUE,
                            !.pendingSignature = stored.lastSignature]
        ELSE IF selection = Null \/ stored.pendingSignature # stored.lastSignature
             THEN [stored EXCEPT !.pendingAutoInclude = FALSE,
                                 !.pendingSignature = NoSignature]
             ELSE stored

\* { ...selection, autoInclude: true }
WithAutoInclude(selection) ==
    [f \in (DOMAIN selection) \cup {"autoInclude"} |->
        IF f = "autoInclude" THEN TRUE ELSE selection[f]]

\* variant: the pending state survives the call
consumeKeepsPending(ss) ==
    IF ss.lastSelection = Null
    THEN [state |-> ss, snapshot |-> Null]
    ELSE IF ss.pendingAutoInclude
         THEN [state |-> ss, snapshot |-> WithAutoInclude(ss.lastSelection)]
         ELSE [state |-> ss, snapshot |-> ss.lastSelection]

\* SelectionState.consume(): the state it leaves and the snapshot it returns
consume(ss) ==
    IF ss.lastSelection = Null
    THEN [state |-> ss, snapshot |-> Null]
    ELSE IF ss.pendingAutoInclude
         THEN [state |-> [ss EXCEPT !.pendingAutoInclude = FALSE,
                                    !.pendingSignature = NoSignature],
               snapshot |-> WithAutoInclude(ss.lastSelection)]
         ELSE [state |-> ss, snapshot |-> ss.lastSelection]

hasPendingAutoInclude(ss) == ss.pendingAutoInclude

\* SelectionState.getSnapshot(): a copy of the stored selection, or null
getSnapshot(ss) == IF ss.lastSelection # Null THEN ss.lastSelection ELSE Null

\* variant: the flag is dropped and the pending signature is kept
clearAutoIncludeFlagOnly(ss) == [ss EXCEPT !.pendingAutoInclude = FALSE]

clearAutoInclude(ss) ==
    [ss EXCEPT !.pendingAutoInclude = FALSE, !.pendingSignature = NoSignature]

\* the test of handleAutoIncludeDelivered on payload?.message?.request
IsAutoIncludeRequest(payload) ==
    /\ "request" \in DOMAIN payload.message
    /\ payload.message.request.type = "selection_changed"
    /\ payload.message.request.selection # Null
    /\ "autoInclude" \in DOMAIN payload.message.request.selection
    /\ payload.message.request.selection.autoInclude

\* variant: the pending flag is dropped for any selection_changed payload
handleAnySelectionDelivered(ss, payloads) ==
    IF \E payload \in payloads :
          /\ "request" \in DOMAIN payload.message
          /\ payload.message.request.type = "selection_changed"
    THEN clearAutoInclude(ss) ELSE ss

\* handleAutoIncludeDelivered, called once for each payload of payloads (the
\* payloads a call has sent without a throw); clearAutoInclude is idempotent
handleAutoIncludeDelivered(ss, payloads) ==
    IF \E payload \in payloads : IsAutoIncludeRequest(payload)
    THEN clearAutoInclude(ss) ELSE ss

\* ------------------------------------------------------------ host side
\* WebviewPanel.reveal throws once the host has disposed the panel
RevealThrows(p) == hostState[p] # "live"

FreshHandles == {h \in Handles : hostState[h] = "none"}
NewHandle == CHOOSE h \in FreshHandles : \A g \in FreshHandles : h <= g

\* host events other than the backlog's posts start once the backlog is posted
BacklogPosted == Len(posted) >= backlog

Init ==
    /\ webviews = {}
    /\ readyWebviews = {}
    /\ webviewConfigs = [w \in {} |-> NoConfig]
    /\ pendingMessages = <<>>
    /\ editorPanels = [k \in {} |-> NoHandle]
    /\ hostState = [h \in Handles |-> "none"]
    /\ bootstrap = [h \in Handles |-> NoConfig]
    /\ focused = NoHandle
    /\ posted = <<>>
    /\ handed = [h \in Handles |-> <<>>]
    /\ evicted = {}
    /\ untracked = {}
    /\ raised = FALSE
    /\ backlog \in Backlogs
    /\ messageHandler = FALSE
    /\ forwarded = <<>>
    /\ selectionState = NewSelectionState
    /\ lastSelectionSignature = NoSignature
    /\ synced = NotSynced
    /\ consumed = Null
    /\ calls = <<>>
    /\ rawContent = <<>>
    /\ blocks = <<>>
    /\ returned = FALSE

\* registerWebview(webview, bootstrap), as the two callers use it
Register(w, boot) ==
    /\ webviews' = webviews \cup {w}
    /\ webviewConfigs' = MapSet(webviewConfigs, w, boot)
    /\ hostState' = [hostState EXCEPT ![w] = "live"]
    /\ bootstrap' = [bootstrap EXCEPT ![w] = boot]

ResolveWebviewView ==
    /\ BacklogPosted
    /\ FreshHandles # {}
    /\ LET w == NewHandle
       IN  /\ Register(w, [host |-> "sidebar", page |-> "chat", id |-> ""])
           /\ raised' = FALSE
    /\ UNCHANGED <<readyWebviews, pendingMessages, editorPanels, focused,
                   posted, handed, evicted, untracked, backlog>>
    /\ UNCHANGED <<handlerVars, selectionVars, parserVars>>

OpenEditorPage(page, instanceId) ==
    /\ BacklogPosted
    /\ LET key == KeyOf(page, instanceId)
           existing == IF key \in DOMAIN editorPanels THEN editorPanels[key]
                       ELSE NoHandle
       IN  IF existing # NoHandle /\ ~ RevealThrows(existing)
           THEN /\ focused' = existing
                /\ UNCHANGED <<webviews, webviewConfigs, hostState, bootstrap,
                               editorPanels>>
           ELSE /\ FreshHandles # {}
                /\ LET p == NewHandle
                   IN  /\ Register(p, [host |-> "editor", page |-> page, id |-> key])
                       /\ editorPanels' = MapSet(editorPanels, key, p)
                       /\ focused' = p
    /\ raised' = FALSE
    /\ UNCHANGED <<readyWebviews, pendingMessages, posted, handed, evicted,
                   untracked, backlog>>
    /\ UNCHANGED <<handlerVars, selectionVars, parserVars>>

\* a call postMessage(m) of the service, entered with the SelectionState ss
Post(m, ss, throws) ==
    LET r == postMessage(webviews, readyWebviews, webviewConfigs,
                         pendingMessages, m, throws)
    IN  /\ webviews' = r.webviews
        /\ readyWebviews' = r.readyWebviews
        /\ webviewConfigs' = r.webviewConfigs
        /\ pendingMessages' = r.pendingMessages
        /\ posted' = Append(posted, m)
        /\ handed' = [h \in Handles |->
                        IF h \in r.attempted \ r.failed
                        THEN Append(handed[h], Payload(m)) ELSE handed[h]]
        /\ evicted' = IF r.buffered
                      THEN evicted \cup ShiftedOut(pendingMessages, m)
                      ELSE evicted
        /\ untracked' = untracked \cup r.failed
        /\ raised' = r.raised
        /\ selectionState' =
              handleAutoIncludeDelivered(
                  ss, IF r.attempted \ r.failed # {} THEN {Payload(m)} ELSE {})

PostMessage(throws) ==
    /\ Len(posted) < backlog + MaxPosts
    /\ Post(Message(Len(posted) + 1), selectionState, throws)
    /\ UNCHANGED <<editorPanels, hostState, bootstrap, focused, backlog>>
    /\ UNCHANGED <<handlerVars, lastSelectionSignature, synced, consumed, calls,
                   parserVars>>

\* the n-th message a webview sends to the extension
InboundMessage(n) == [type |-> "event", id |-> n]

\* a call of the registered handler: the message it is given, the webview the
\* message came from, and what the service looks like when the call is made
HandlerCall(w, message, rdy, buf) ==
    [from |-> w, message |-> message,
     ready |-> w \in rdy, pending |-> Len(buf)]

\* variant: the handler is called before markWebviewReady
listenerHandlerFirst(w, message, r) ==
    HandlerCall(w, message, readyWebviews, pendingMessages)

\* the handler call of the listener, r being what markWebviewReady has done
listener(w, message, r) ==
    HandlerCall(w, message, r.readyWebviews, r.pendingMessages)

\* the onDidReceiveMessage listener of registerWebview
ReceiveMessage(w, failAt) ==
    /\ BacklogPosted
    /\ hostState[w] = "live"
    /\ Len(forwarded) < MaxInbound
    /\ LET r == markWebviewReady(webviews, readyWebviews, webviewConfigs,
                                 pendingMessages, w, failAt)
           message == InboundMessage(Len(forwarded) + 1)
       IN  /\ webviews' = r.webviews
           /\ readyWebviews' = r.readyWebviews
           /\ webviewConfigs' = r.webviewConfigs
           /\ pendingMessages' = r.pendingMessages
           /\ handed' = [h \in Handles |->
                           IF h \in DOMAIN r.sent THEN handed[h] \o r.sent[h]
                           ELSE handed[h]]
           /\ untracked' = untracked \cup r.failed
           /\ raised' = FALSE
           /\ selectionState' =
                 handleAutoIncludeDelivered(
                     selectionState,
                     UNION {Range(r.sent[h]) : h \in DOMAIN r.sent})
           /\ forwarded' = IF messageHandler
                           THEN Append(forwarded, listener(w, message, r))
                           ELSE forwarded
    /\ UNCHANGED <<editorPanels, hostState, bootstrap, focused, posted, evicted,
                   backlog>>
    /\ UNCHANGED <<messageHandler, lastSelectionSignature, synced, consumed,
                   calls, parserVars>>

\* the host disposes an editor panel and the panel's dispose callback has not
\* run yet: the window the catch of openEditorPage is written for
HostDispose(w) ==
    /\ BacklogPosted
    /\ hostState[w] = "live"
    /\ bootstrap[w].host = "editor"
    /\ hostState' = [hostState EXCEPT ![w] = "closing"]
    /\ raised' = FALSE
    /\ UNCHANGED <<webviews, readyWebviews, webviewConfigs, pendingMessages,
                   editorPanels, bootstrap, focused, posted, handed, evicted,
                   untracked, backlog>>
    /\ UNCHANGED <<handlerVars, selectionVars, parserVars>>

\* the onDidDispose callback of a sidebar view (at its disposal) or of an
\* editor panel (after the host disposed it) runs
OnDidDispose(w) ==
    /\ BacklogPosted
    /\ \/ bootstrap[w].host = "sidebar" /\ hostState[w] = "live"
       \/ bootstrap[w].host = "editor" /\ hostState[w] = "closing"
    /\ hostState' = [hostState EXCEPT ![w] = "disposed"]
    /\ webviews' = webviews \ {w}
    /\ readyWebviews' = readyWebviews \ {w}
    /\ webviewConfigs' = MapDelete(webviewConfigs, w)
    /\ editorPanels' = DisposedPanels(editorPanels, bootstrap[w])
    /\ untracked' = untracked \cup {w}
    /\ raised' = FALSE
    /\ UNCHANGED <<pendingMessages, bootstrap, focused, posted, handed,
                   evicted, backlog>>
    /\ UNCHANGED <<handlerVars, selectionVars, parserVars>>

\* the user moves to another editor: no panel of the service is shown in front
FocusLeaves ==
    /\ BacklogPosted
    /\ focused # NoHandle
    /\ focused' = NoHandle
    /\ raised' = FALSE
    /\ UNCHANGED <<webviews, readyWebviews, webviewConfigs, pendingMessages,
                   editorPanels, hostState, bootstrap, posted, handed, evicted,
                   untracked, backlog>>
    /\ UNCHANGED <<handlerVars, selectionVars, parserVars>>

\* the failure points the host may choose for a replay of n payloads
FailPoints(n) == 0..Min(n, MaxFailAt)

Next ==
    \/ ResolveWebviewView
    \/ \E page \in Pages, instanceId \in InstanceIds : OpenEditorPage(page, instanceId)
    \/ \E throws \in SUBSET PostTargets(webviews, readyWebviews, webviewConfigs) :
          PostMessage(throws)
    \/ \E w \in Handles :
          \E failAt \in [FlushTargets(readyWebviews \cup {w}, webviewConfigs)
                           -> FailPoints(Len(pendingMessages))] :
             ReceiveMessage(w, failAt)
    \/ \E w \in Handles : HostDispose(w)
    \/ \E w \in Handles : OnDidDispose(w)
    \/ FocusLeaves

Spec == Init /\ [][Next]_vars

\* ---------------------------------------------------- selection wiring
\* the i-th character of a string
CharAt(str, i) == SubSeq(str, i, i)

\* JSON.stringify of a string: quotes, with the escapes of the characters used
RECURSIVE JsonEscape(_)
JsonEscape(str) ==
    IF Len(str) = 0 THEN ""
    ELSE LET c == CharAt(str, 1)
             rest == JsonEscape(SubSeq(str, 2, Len(str)))
         IN  IF c = "\n" THEN "\\n" \o rest
             ELSE IF c = "\"" THEN "\\\"" \o rest
             ELSE IF c = "\\" THEN "\\\\" \o rest
             ELSE c \o rest

JsonString(str) == "\"" \o JsonEscape(str) \o "\""

\* the text editors the host may report: none, the panel of a webview or an
\* output channel, a file with an empty selection, a file with text selected
FileEditor(fsPath, startLine, startCharacter, endLine, endCharacter, text) ==
    [scheme |-> "file", fsPath |-> fsPath, isEmpty |-> FALSE,
     start |-> [line |-> startLine, character |-> startCharacter],
     end |-> [line |-> endLine, character |-> endCharacter],
     text |-> text]

\* two files whose names and selections give the same SelectionState signature
EditorA == FileEditor("/w/a", 0, 3, 1, 1, "1:b\nc")
EditorB == FileEditor("/w/a:1", 1, 1, 2, 1, "b\nc")
EditorC == FileEditor("/w/c.ts", 0, 0, 0, 3, "foo")

OutputEditor ==
    [scheme |-> "output", fsPath |-> "", isEmpty |-> TRUE,
     start |-> [line |-> 0, character |-> 0],
     end |-> [line |-> 0, character |-> 0], text |-> ""]

EmptyFileEditor ==
    [scheme |-> "file", fsPath |-> "/w/c.ts", isEmpty |-> TRUE,
     start |-> [line |-> 0, character |-> 0],
     end |-> [line |-> 0, character |-> 0], text |-> ""]

\* the editors of the editor events and of the addSelectionToChat command
SelectingEditors == {EditorA, EditorC}
Editors == {Null, OutputEditor, EmptyFileEditor} \cup SelectingEditors

buildSelectionRange(editor) ==
    IF editor = Null THEN Null
    ELSE IF editor.scheme # "file" \/ editor.isEmpty THEN Null
    ELSE [filePath |-> editor.fsPath,
          startLine |-> editor.start.line + 1,
          endLine |-> editor.end.line + 1,
          startColumn |-> editor.start.character,
          endColumn |-> editor.end.character,
          selectedText |-> editor.text]

\* variant: the signature is taken of the whole payload, the autoInclude flag
\* included
serializeSelectionWithFlag(selection) ==
    IF selection = Null THEN "::no_selection::"
    ELSE "{\"filePath\":" \o JsonString(selection.filePath)
         \o ",\"startLine\":" \o ToString(selection.startLine)
         \o ",\"endLine\":" \o ToString(selection.endLine)
         \o ",\"startColumn\":" \o ToString(selection.startColumn)
         \o ",\"endColumn\":" \o ToString(selection.endColumn)
         \o ",\"selectedText\":" \o JsonString(selection.selectedText)
         \o (IF "autoInclude" \in DOMAIN selection
             THEN ",\"autoInclude\":true" ELSE "") \o "}"

\* serializeSelection: JSON.stringify of the six fields
serializeSelection(selection) ==
    IF selection = Null THEN "::no_selection::"
    ELSE "{\"filePath\":" \o JsonString(selection.filePath)
         \o ",\"startLine\":" \o ToString(selection.startLine)
         \o ",\"endLine\":" \o ToString(selection.endLine)
         \o ",\"startColumn\":" \o ToString(selection.startColumn)
         \o ",\"endColumn\":" \o ToString(selection.endColumn)
         \o ",\"selectedText\":" \o JsonString(selection.selectedText) \o "}"

\* the request message of sendSelectionUpdate, the n-th message posted
SelectionChanged(n, selection) ==
    [type |-> "request", requestId |-> n,
     request |-> [type |-> "selection_changed", selection |-> selection]]

\* the early return of syncSelection: no selection, the editor is not a file
\* editor, and an auto-include is pending
syncReturnsEarly(editor) ==
    /\ buildSelectionRange(editor) = Null
    /\ ~ (editor # Null /\ editor.scheme = "file")
    /\ hasPendingAutoInclude(selectionState)

\* syncSelection(editor, {autoInclude}), sendSelectionUpdate included
SyncSelection(editor, autoInclude, throws) ==
    /\ Len(posted) = 0 \/ BacklogPosted
    /\ Len(posted) < backlog + MaxPosts
    /\ LET selection == buildSelectionRange(editor)
           force == selection # Null /\ autoInclude
           ss == set(selectionState, selection, autoInclude)
           payload == IF force THEN WithAutoInclude(selection) ELSE selection
           signature == serializeSelection(payload)
       IN  IF syncReturnsEarly(editor)
           THEN /\ raised' = FALSE
                /\ UNCHANGED <<webviews, readyWebviews, webviewConfigs,
                               pendingMessages, posted, handed, evicted,
                               untracked, selectionState,
                               lastSelectionSignature>>
           ELSE IF ~ force /\ signature = lastSelectionSignature
           THEN /\ selectionState' = ss
                /\ raised' = FALSE
                /\ UNCHANGED <<webviews, readyWebviews, webviewConfigs,
                               pendingMessages, posted, handed, evicted,
                               untracked, lastSelectionSignature>>
           ELSE /\ lastSelectionSignature' = signature
                /\ Post(SelectionChanged(Len(posted) + 1, payload), ss, throws)
    /\ synced' = [event |-> buildSelectionRange(editor),
                  update |-> IF syncReturnsEarly(editor) THEN synced.update
                             ELSE buildSelectionRange(editor),
                  before |-> Len(posted)]
    /\ UNCHANGED <<editorPanels, hostState, bootstrap, focused, backlog>>
    /\ UNCHANGED <<handlerVars, consumed, calls, parserVars>>

\* the service as its constructor leaves it, no webview resolved or opened
ServiceInit ==
    /\ webviews = {}
    /\ readyWebviews = {}
    /\ webviewConfigs = [w \in {} |-> NoConfig]
    /\ pendingMessages = <<>>
    /\ editorPanels = [k \in {} |-> NoHandle]
    /\ hostState = [h \in Handles |-> "none"]
    /\ bootstrap = [h \in Handles |-> NoConfig]
    /\ focused = NoHandle
    /\ posted = <<>>
    /\ handed = [h \in Handles |-> <<>>]
    /\ evicted = {}
    /\ untracked = {}
    /\ raised = FALSE
    /\ forwarded = <<>>

\* the selectionState singleton and the closure of activate at module load
SelectionInit ==
    /\ selectionState = NewSelectionState
    /\ lastSelectionSignature = NoSignature
    /\ synced = NotSynced
    /\ consumed = Null
    /\ calls = <<>>

\* no content has been given to the parser
ParserIdle ==
    /\ rawContent = <<>>
    /\ blocks = <<>>
    /\ returned = FALSE

\* the state once activate has wired the service: the handler is registered
SyncInit ==
    /\ ServiceInit
    /\ backlog \in Backlogs
    /\ messageHandler = TRUE
    /\ SelectionInit
    /\ ParserIdle

\* the sidebar chat view (claudix.chatView, resolved once), the agent's
\* messages, the editor events and the addSelectionToChat command (which asks
\* for a selection in a file editor)
SyncNext ==
    \/ (\A h \in Handles : hostState[h] = "none") /\ ResolveWebviewView
    \/ \E throws \in SUBSET PostTargets(webviews, readyWebviews, webviewConfigs) :
          PostMessage(throws)
    \/ \E w \in Handles :
          \E failAt \in [FlushTargets(readyWebviews \cup {w}, webviewConfigs)
                           -> FailPoints(Len(pendingMessages))] :
             ReceiveMessage(w, failAt)
    \/ \E editor \in Editors,
          throws \in SUBSET PostTargets(webviews, readyWebviews, webviewConfigs) :
          SyncSelection(editor, FALSE, throws)
    \/ \E editor \in SelectingEditors,
          throws \in SUBSET PostTargets(webviews, readyWebviews, webviewConfigs) :
          SyncSelection(editor, TRUE, throws)

SyncSpec == SyncInit /\ [][SyncNext]_vars

\* ------------------------------------------- the SelectionState by itself
SelectionA == buildSelectionRange(EditorA)
SelectionB == buildSelectionRange(EditorB)
SelectionC == buildSelectionRange(EditorC)
Selections == {SelectionA, SelectionB, SelectionC}

SetCall(selection, autoInclude) ==
    [op |-> "set", selection |-> selection, autoInclude |-> autoInclude]
ConsumeCall == [op |-> "consume"]
ClearCall == [op |-> "clearAutoInclude"]
SnapshotCall(snapshot) == [op |-> "getSnapshot", snapshot |-> snapshot]

\* the bridge and the parser take no step while the SelectionState is driven
SelectionOnly ==
    UNCHANGED <<webviews, readyWebviews, webviewConfigs, pendingMessages,
                editorPanels, hostState, bootstrap, focused, posted, handed,
                evicted, untracked, raised, backlog, handlerVars,
                lastSelectionSignature, synced, parserVars>>

\* selectionState.set(selection, {autoInclude})
Set(selection, autoInclude) ==
    /\ Len(calls) < MaxCalls
    /\ selectionState' = set(selectionState, selection, autoInclude)
    /\ calls' = Append(calls, SetCall(selection, autoInclude))
    /\ UNCHANGED consumed
    /\ SelectionOnly

\* selectionState.consume()
Consume ==
    /\ Len(calls) < MaxCalls
    /\ selectionState' = consume(selectionState).state
    /\ consumed' = consume(selectionState).snapshot
    /\ calls' = Append(calls, ConsumeCall)
    /\ SelectionOnly

\* selectionState.clearAutoInclude()
ClearAutoInclude ==
    /\ Len(calls) < MaxCalls
    /\ selectionState' = clearAutoInclude(selectionState)
    /\ calls' = Append(calls, ClearCall)
    /\ UNCHANGED consumed
    /\ SelectionOnly

\* selectionState.getSnapshot()
GetSnapshot ==
    /\ Len(calls) < MaxCalls
    /\ calls' = Append(calls, SnapshotCall(getSnapshot(selectionState)))
    /\ UNCHANGED <<selectionState, consumed>>
    /\ SelectionOnly

StateInit ==
    /\ ServiceInit
    /\ backlog = 0
    /\ messageHandler = FALSE
    /\ SelectionInit
    /\ ParserIdle

StateNext ==
    \/ \E selection \in Selections \cup {Null}, autoInclude \in BOOLEAN :
          Set(selection, autoInclude)
    \/ Consume
    \/ ClearAutoInclude
    \/ GetSnapshot

StateSpec == StateInit /\ [][StateNext]_vars

\* ------------------------- the wiring with a caller of consume() at work
\* the handler of UI initialization asks for the selection at any time
ConsumeInit ==
    /\ SyncInit
    /\ backlog = 0

ConsumeNext ==
    \/ SyncNext
    \/ Consume

ConsumeSpec == ConsumeInit /\ [][ConsumeNext]_vars

\* ------------------------------------------------------- strings, regexes
IsSpace(c) == c \in {" ", "\n", "\t", "\r"}
IsDigit(c) == c \in {"0", "1", "2", "3", "4", "5", "6", "7", "8", "9"}
NotNewline(c) == c # "\n" /\ c # "\r"

Least(S) == CHOOSE x \in S : \A y \in S : x <= y
Greatest(S) == CHOOSE x \in S : \A y \in S : y <= x

\* the literal lit stands in str at index i
StartsWithAt(str, i, lit) ==
    /\ i >= 1
    /\ i + Len(lit) - 1 <= Len(str)
    /\ SubSeq(str, i, i + Len(lit) - 1) = lit

\* String.prototype.includes, startsWith
includes(str, lit) == \E i \in 1..Len(str) : StartsWithAt(str, i, lit)
startsWith(str, lit) == StartsWithAt(str, 1, lit)

\* the first index >= from at which lit stands, 0 when there is none
IndexOf(str, lit, from) ==
    LET I == {i \in from..Len(str) : StartsWithAt(str, i, lit)}
    IN  IF I = {} THEN 0 ELSE Least(I)

\* the last index of the longest run of Class characters that starts at i
\* (i - 1 when the run is empty): a greedy Class*
RunEnd(str, i, Class(_)) ==
    LET stops == {j \in i..Len(str) : ~ Class(CharAt(str, j))}
    IN  IF stops = {} THEN Len(str) ELSE Least(stops) - 1

\* str.replace(/\s*$/, '')
trimEnd(str) ==
    LET keep == {j \in 1..Len(str) : ~ IsSpace(CharAt(str, j))}
    IN  IF keep = {} THEN "" ELSE SubSeq(str, 1, Greatest(keep))

\* String.prototype.trim
trim(str) ==
    LET keep == {j \in 1..Len(str) : ~ IsSpace(CharAt(str, j))}
    IN  IF keep = {} THEN "" ELSE SubSeq(str, Least(keep), Greatest(keep))

\* parseInt(digits, 10) of a run of decimal digits
RECURSIVE parseInt(_)
parseInt(digits) ==
    IF Len(digits) = 0 THEN 0
    ELSE parseInt(SubSeq(digits, 1, Len(digits) - 1)) * 10
         + (CHOOSE n \in 0..9 : ToString(n) = CharAt(digits, Len(digits)))

\* path.split('/').pop() || path
Basename(path) ==
    LET slashes == {i \in 1..Len(path) : CharAt(path, i) = "/"}
        last == IF slashes = {} THEN path
                ELSE SubSeq(path, Greatest(slashes) + 1, Len(path))
    IN  IF last = "" THEN path ELSE last

\* a record with one more field
With(rec, field, value) ==
    [f \in (DOMAIN rec) \cup {field} |-> IF f = field THEN value ELSE rec[f]]

\* text.match(/from ([^:]+):/): the leftmost "from " that is followed by one
\* non-colon character or more and a colon
fileMatch(text) ==
    LET P == {p \in 1..Len(text) :
                StartsWithAt(text, p, "from ")
                  /\ IndexOf(text, ":", p + 5) > p + 5}
    IN  IF P = {} THEN Null
        ELSE LET p == Least(P)
                 colon == IndexOf(text, ":", p + 5)
             IN  [index |-> p, colon |-> colon,
                  path |-> SubSeq(text, p + 5, colon - 1)]

\* text.match(/lines (\d+) to (\d+)/)
linesMatch(text) ==
    LET first(p) == RunEnd(text, p + 6, IsDigit)
        second(p) == RunEnd(text, first(p) + 5, IsDigit)
        P == {p \in 1..Len(text) :
                /\ StartsWithAt(text, p, "lines ")
                /\ first(p) >= p + 6
                /\ StartsWithAt(text, first(p) + 1, " to ")
                /\ second(p) >= first(p) + 5}
    IN  IF P = {} THEN Null
        ELSE LET p == Least(P)
             IN  [from |-> SubSeq(text, p + 6, first(p)),
                  to |-> SubSeq(text, first(p) + 5, second(p))]

\* text.match(/line (\d+)/)
singleLineMatch(text) ==
    LET P == {p \in 1..Len(text) :
                /\ StartsWithAt(text, p, "line ")
                /\ RunEnd(text, p + 5, IsDigit) >= p + 5}
    IN  IF P = {} THEN Null
        ELSE LET p == Least(P)
             IN  [line |-> SubSeq(text, p + 5, RunEnd(text, p + 5, IsDigit))]

Sentinel == "This may or may not be related"

\* /\n+\s*This may or may not be related/ matches at index e
SentinelAt(text, e) ==
    /\ e <= Len(text)
    /\ CharAt(text, e) = "\n"
    /\ StartsWithAt(text, RunEnd(text, e, IsSpace) + 1, Sentinel)

\* text.match(/from [^:]+:\s*([\s\S]*?)\n+\s*This may or may not be related/):
\* \s* takes as much white space as leaves a match, the group as little text
snippetMatch(text) ==
    LET colonOf(p) == IndexOf(text, ":", p + 5)
        widths(p) == {k \in 0..(RunEnd(text, colonOf(p) + 1, IsSpace) - colonOf(p)) :
                        \E e \in (colonOf(p) + 1 + k)..Len(text) :
                            SentinelAt(text, e)}
        P == {p \in 1..Len(text) :
                /\ StartsWithAt(text, p, "from ")
                /\ colonOf(p) > p + 5
                /\ widths(p) # {}}
    IN  IF P = {} THEN Null
        ELSE LET p == Least(P)
                 begin == colonOf(p) + 1 + Greatest(widths(p))
                 e == Least({i \in begin..Len(text) : SentinelAt(text, i)})
             IN  [snippet |-> SubSeq(text, begin, e - 1)]

\* ------------------------------------------------ content-block parser
\* startLine and endLine of parseSelection, 0 where the code leaves undefined
StartLine(lines, single) ==
    IF lines # Null THEN parseInt(lines.from)
    ELSE IF single # Null THEN parseInt(single.line)
    ELSE 0

EndLine(lines) == IF lines # Null THEN parseInt(lines.to) ELSE 0

\* startLine && endLine ? ... : startLine ? ... : fileName
SelectionLabel(fileName, startLine, endLine) ==
    IF startLine # 0 /\ endLine # 0
    THEN fileName \o "#" \o ToString(startLine) \o "-" \o ToString(endLine)
    ELSE IF startLine # 0 THEN fileName \o "#" \o ToString(startLine)
    ELSE fileName

\* the block parseSelection returns; a field that is undefined is left out
SelectionBlock(filePath, lines, single, snippet) ==
    LET b0 == [type |-> "selection", filePath |-> filePath,
               label |-> SelectionLabel(Basename(filePath),
                                        StartLine(lines, single), EndLine(lines))]
        b1 == IF lines # Null \/ single # Null
              THEN With(b0, "startLine", StartLine(lines, single)) ELSE b0
        b2 == IF lines # Null THEN With(b1, "endLine", EndLine(lines)) ELSE b1
    IN  IF snippet # Null
        THEN With(b2, "selectedText", trimEnd(snippet.snippet))
        ELSE b2

parseSelection(text) ==
    IF fileMatch(text) = Null THEN Null
    ELSE SelectionBlock(fileMatch(text).path, linesMatch(text),
                        singleLineMatch(text), snippetMatch(text))

\* text.match(/<tag>([\s\S]*?)<\/tag>/) for an opening and a closing tag: the
\* leftmost opening tag that has a closing tag after it, up to the first one
TagMatch(text, open, close) ==
    LET P == {p \in 1..Len(text) :
                /\ StartsWithAt(text, p, open)
                /\ IndexOf(text, close, p + Len(open)) > 0}
    IN  IF P = {} THEN Null
        ELSE LET p == Least(P)
             IN  [body |-> SubSeq(text, p + Len(open),
                                  IndexOf(text, close, p + Len(open)) - 1)]

\* text.match(/(?:opened the file|opened file) (.+?) in (?:the )?(?:IDE|editor)/)
openedFileMatch(text) ==
    LET begin(p) == IF StartsWithAt(text, p, "opened the file ") THEN p + 16
                    ELSE IF StartsWithAt(text, p, "opened file ") THEN p + 12
                    ELSE 0
        after(i) == /\ StartsWithAt(text, i, " in ")
                    /\ \/ StartsWithAt(text, i + 4, "IDE")
                       \/ StartsWithAt(text, i + 4, "editor")
                       \/ StartsWithAt(text, i + 4, "the IDE")
                       \/ StartsWithAt(text, i + 4, "the editor")
        ends(p) == {e \in begin(p)..RunEnd(text, begin(p), NotNewline) :
                      after(e + 1)}
        P == {p \in 1..Len(text) : begin(p) # 0 /\ ends(p) # {}}
    IN  IF P = {} THEN Null
        ELSE LET p == Least(P)
             IN  [path |-> SubSeq(text, begin(p), Least(ends(p)))]

parseOpenedFile(text) ==
    LET match == openedFileMatch(text)
    IN  IF match = Null THEN Null
        ELSE [type |-> "opened_file", filePath |-> match.path,
              label |-> Basename(match.path)]

parseSlashCommandResult(text) ==
    LET stderrMatch == TagMatch(text, "<local-command-stderr>",
                                "</local-command-stderr>")
        stdoutMatch == TagMatch(text, "<local-command-stdout>",
                                "</local-command-stdout>")
    IN  IF stderrMatch # Null
        THEN [type |-> "slash_command_result",
              result |-> trim(stderrMatch.body), isError |-> TRUE]
        ELSE IF stdoutMatch # Null
        THEN [type |-> "slash_command_result",
              result |-> trim(stdoutMatch.body), isError |-> FALSE]
        ELSE Null

\* JSON.parse, for the JSON texts made of null, true, false, unsigned integers,
\* strings without escapes, arrays and objects. A value is kept with its kind.
JsonFail == [ok |-> FALSE, value |-> Null, next |-> 0]
JsonOk(value, next) == [ok |-> TRUE, value |-> value, next |-> next]
SkipSpace(str, i) == RunEnd(str, i, IsSpace) + 1

RECURSIVE JsonValue(_, _), JsonElements(_, _, _), JsonMembers(_, _, _)
\* the value that starts at index i
JsonValue(str, i) ==
    IF i > Len(str) THEN JsonFail
    ELSE IF StartsWithAt(str, i, "null") THEN JsonOk([kind |-> "null"], i + 4)
    ELSE IF StartsWithAt(str, i, "true") THEN JsonOk([kind |-> "true"], i + 4)
    ELSE IF StartsWithAt(str, i, "false") THEN JsonOk([kind |-> "false"], i + 5)
    ELSE IF IsDigit(CharAt(str, i))
    THEN LET e == RunEnd(str, i, IsDigit)
         IN  IF e > i /\ CharAt(str, i) = "0" THEN JsonFail
             ELSE JsonOk([kind |-> "number",
                          number |-> parseInt(SubSeq(str, i, e))], e + 1)
    ELSE IF CharAt(str, i) = "\""
    THEN LET q == IndexOf(str, "\"", i + 1)
         IN  IF q = 0 \/ includes(SubSeq(str, i + 1, q - 1), "\\")
                \/ includes(SubSeq(str, i + 1, q - 1), "\n")
             THEN JsonFail
             ELSE JsonOk([kind |-> "string",
                          string |-> SubSeq(str, i + 1, q - 1)], q + 1)
    ELSE IF CharAt(str, i) = "["
    THEN IF CharAt(str, SkipSpace(str, i + 1)) = "]"
         THEN JsonOk([kind |-> "array", items |-> <<>>],
                     SkipSpace(str, i + 1) + 1)
         ELSE JsonElements(str, i + 1, <<>>)
    ELSE IF CharAt(str, i) = "{"
    THEN IF CharAt(str, SkipSpace(str, i + 1)) = "}"
         THEN JsonOk([kind |-> "object", fields |-> [k \in {} |-> Null]],
                     SkipSpace(str, i + 1) + 1)
         ELSE JsonMembers(str, i + 1, [k \in {} |-> Null])
    ELSE JsonFail

\* the elements of an array from index i on, items being those read so far
JsonElements(str, i, items) ==
    LET r == JsonValue(str, SkipSpace(str, i))
        j == SkipSpace(str, r.next)
    IN  IF ~ r.ok THEN JsonFail
        ELSE IF CharAt(str, j) = ","
        THEN JsonElements(str, j + 1, Append(items, r.value))
        ELSE IF CharAt(str, j) = "]"
        THEN JsonOk([kind |-> "array", items |-> Append(items, r.value)], j + 1)
        ELSE JsonFail

\* the members of an object from index i on, fields being those read so far
JsonMembers(str, i, fields) ==
    LET k == JsonValue(str, SkipSpace(str, i))
        c == SkipSpace(str, k.next)
        r == JsonValue(str, SkipSpace(str, c + 1))
        j == SkipSpace(str, r.next)
    IN  IF ~ k.ok \/ k.value.kind # "string" THEN JsonFail
        ELSE IF CharAt(str, c) # ":" THEN JsonFail
        ELSE IF ~ r.ok THEN JsonFail
        ELSE IF CharAt(str, j) = ","
        THEN JsonMembers(str, j + 1, With(fields, k.value.string, r.value))
        ELSE IF CharAt(str, j) = "}"
        THEN JsonOk([kind |-> "object",
                     fields |-> With(fields, k.value.string, r.value)], j + 1)
        ELSE JsonFail

\* JSON.parse(str): the value, or Null where JSON.parse throws a SyntaxError
JsonParse(str) ==
    LET r == JsonValue(str, SkipSpace(str, 1))
    IN  IF r.ok /\ SkipSpace(str, r.next) = Len(str) + 1 THEN r.value ELSE Null

\* a parsed value is falsy in JavaScript
Falsy(value) ==
    \/ value.kind \in {"null", "false"}
    \/ value.kind = "number" /\ value.number = 0
    \/ value.kind = "string" /\ value.string = ""

\* entry.field || fallback, for an entry that is not null
FieldOr(entry, field, fallback) ==
    IF entry.kind # "object" THEN fallback
    ELSE IF field \notin DOMAIN entry.fields THEN fallback
    ELSE IF Falsy(entry.fields[field]) THEN fallback
    ELSE IF entry.fields[field].kind = "string" THEN entry.fields[field].string
    ELSE IF entry.fields[field].kind = "number" THEN entry.fields[field].number
    ELSE entry.fields[field]

\* variant: a body that does not parse gives a block without entries
parseDiagnosticsLenient(text) ==
    LET hookMatch == TagMatch(text, "<post-tool-use-hook>",
                              "</post-tool-use-hook>")
    IN  IF hookMatch = Null THEN Null
        ELSE [type |-> "diagnostics", diagnostics |-> <<>>]

\* one entry of parsed.map(...)
DiagnosticsEntry(entry) ==
    [filePath |-> FieldOr(entry, "filePath", ""),
     line |-> FieldOr(entry, "line", 0),
     column |-> FieldOr(entry, "column", 0),
     message |-> FieldOr(entry, "message", ""),
     code |-> FieldOr(entry, "code", ""),
     severity |-> FieldOr(entry, "severity", "")]

\* the body of the try block for what JSON.parse gave, Null for undefined
DiagnosticsOf(parsed) ==
    \* SyntaxError caught, or not an array
    IF parsed = Null THEN Null
    ELSE IF parsed.kind # "array" THEN Null
    \* entry.filePath of a null entry: TypeError, caught
    ELSE IF \E i \in 1..Len(parsed.items) : parsed.items[i].kind = "null"
    THEN Null
    ELSE [type |-> "diagnostics",
          diagnostics |-> [i \in 1..Len(parsed.items) |->
                              DiagnosticsEntry(parsed.items[i])]]

\* the nested tag of what the hook tag holds
DiagnosticsIn(hook) ==
    IF TagMatch(hook, "<ide_diagnostics>", "</ide_diagnostics>") = Null THEN Null
    ELSE DiagnosticsOf(JsonParse(
             TagMatch(hook, "<ide_diagnostics>", "</ide_diagnostics>").body))

parseDiagnostics(text) ==
    IF TagMatch(text, "<post-tool-use-hook>", "</post-tool-use-hook>") = Null
    THEN Null
    ELSE DiagnosticsIn(
             TagMatch(text, "<post-tool-use-hook>", "</post-tool-use-hook>").body)

\* parseSlashCommandText: the command line, "" where the code returns undefined
\* (the caller only tests the result for truthiness)
parseSlashCommandText(text) ==
    LET commandNameMatch == TagMatch(text, "<command-name>", "</command-name>")
        commandArgsMatch == TagMatch(text, "<command-args>", "</command-args>")
    IN  IF commandNameMatch = Null THEN ""
        ELSE trim(trim(commandNameMatch.body) \o " "
                  \o (IF commandArgsMatch # Null THEN trim(commandArgsMatch.body)
                      ELSE ""))

INTERRUPT_MESSAGES ==
    [t \in {"[Request interrupted by user]",
            "[Request interrupted by user for tool use]"} |->
        IF t = "[Request interrupted by user]" THEN "Interrupted"
        ELSE "Tool interrupted"]

\* INTERRUPT_MESSAGES is an object literal: a lookup by a key it does not own
\* finds what Object.prototype has under that name
ObjectPrototypeKeys ==
    {"constructor", "toString", "toLocaleString", "valueOf", "hasOwnProperty",
     "isPrototypeOf", "propertyIsEnumerable", "__proto__", "__defineGetter__",
     "__defineSetter__", "__lookupGetter__", "__lookupSetter__"}

\* INTERRUPT_MESSAGES[text]: "" where the lookup gives undefined, and the
\* inherited member, written by its name, where Object.prototype has one
InterruptLookup(text) ==
    IF text \in DOMAIN INTERRUPT_MESSAGES THEN INTERRUPT_MESSAGES[text]
    ELSE IF text \in ObjectPrototypeKeys THEN "[object " \o text \o "]"
    ELSE ""

TOOL_REJECTION_MARKER ==
    "The user doesn't want to proceed with this tool use. The tool use was rejected (eg. if it was a file edit, the new_string was NOT written to the file). STOP what you are doing and wait for the user to tell you how to proceed."

TOOL_REJECTION_PREFIX ==
    "The user doesn't want to proceed with this tool use. The tool use was rejected (eg. if it was a file edit, the new_string was NOT written to the file). The user provided the following reason for the rejection: "

createTextBlock(text) == [type |-> "text", text |-> text]
createThinkingBlock(thinking) == [type |-> "thinking", thinking |-> thinking]

\* a field of a raw fragment, or the fallback where the field is undefined
FieldOf(raw, field, fallback) ==
    IF field \in DOMAIN raw THEN raw[field] ELSE fallback

\* { type, a: raw.a, ... }: the fields the fragment has among those copied
Copy(raw, type, fields) ==
    [f \in {"type"} \cup (fields \cap DOMAIN raw) |->
        IF f = "type" THEN type ELSE raw[f]]

createImageBlock(raw) == Copy(raw, "image", {"source"})
createDocumentBlock(raw) == Copy(raw, "document", {"title", "source"})
createToolUseBlock(raw) == raw
createToolResultBlock(raw) ==
    Copy(raw, "tool_result", {"tool_use_id", "content", "is_error"})

parseTextBlock(text) ==
    IF InterruptLookup(text) # ""
    THEN <<[type |-> "interrupt", message |-> text,
            friendlyMessage |-> InterruptLookup(text)]>>
    ELSE IF includes(text, "<ide_selection>") /\ parseSelection(text) # Null
    THEN <<parseSelection(text)>>
    ELSE IF includes(text, "<ide_opened_file>") /\ parseOpenedFile(text) # Null
    THEN <<parseOpenedFile(text)>>
    ELSE IF (includes(text, "<local-command-stderr>")
               \/ includes(text, "<local-command-stdout>"))
            /\ parseSlashCommandResult(text) # Null
    THEN <<parseSlashCommandResult(text)>>
    ELSE IF includes(text, "<post-tool-use-hook>") /\ parseDiagnostics(text) # Null
    THEN <<parseDiagnostics(text)>>
    ELSE IF parseSlashCommandText(text) # ""
    THEN <<[type |-> "text", text |-> parseSlashCommandText(text),
            isSlashCommand |-> TRUE]>>
    ELSE IF text = TOOL_REJECTION_MARKER \/ startsWith(text, TOOL_REJECTION_PREFIX)
    THEN <<>>
    ELSE <<createTextBlock(text)>>

\* JSON.stringify(raw) of a fragment that has a type and nothing else
stringify(raw) == "{\"type\":" \o JsonString(raw.type) \o "}"

parseBlock(raw) ==
    IF raw = Null THEN <<createTextBlock("")>>
    ELSE IF raw.type = "text"
    THEN parseTextBlock(FieldOf(raw, "text", FieldOf(raw, "value", "")))
    ELSE IF raw.type = "thinking"
    THEN <<createThinkingBlock(FieldOf(raw, "thinking", ""))>>
    ELSE IF raw.type = "redacted_thinking" THEN <<>>
    ELSE IF raw.type = "image" THEN <<createImageBlock(raw)>>
    ELSE IF raw.type = "document" THEN <<createDocumentBlock(raw)>>
    ELSE IF raw.type = "tool_use" THEN <<createToolUseBlock(raw)>>
    ELSE IF raw.type = "tool_result" THEN <<createToolResultBlock(raw)>>
    ELSE <<createTextBlock(stringify(raw))>>

\* variant: blocks.unshift(...parsed)
RECURSIVE parseMessageContentReversed(_)
parseMessageContentReversed(raws) ==
    IF raws = <<>> THEN <<>>
    ELSE parseMessageContentReversed(Tail(raws)) \o parseBlock(Head(raws))

RECURSIVE parseMessageContent(_)
parseMessageContent(raws) ==
    IF raws = <<>> THEN <<>>
    ELSE parseBlock(Head(raws)) \o parseMessageContent(Tail(raws))

\* ------------------------------------------------- the parser by itself
MarkerNote == "\n\nThis may or may not be related to the current task."

SelectionRangeText ==
    "<ide_selection>The user selected text from src/a.ts: lines 3 to 7\nfoo\nbar\n   This may or may not be related to the current task.</ide_selection>"
SelectionLineText ==
    "<ide_selection>The user selected line 12 from /w/src/b.ts:\nx = 1" \o MarkerNote \o "</ide_selection>"
SelectionPlainText ==
    "<ide_selection>Selection from notes.md: hello" \o MarkerNote \o "</ide_selection>"
SelectionZeroText ==
    "<ide_selection>The user selected the lines 0 to 2 from /w/z.ts:\nzero" \o MarkerNote \o "</ide_selection>"
SelectionBareText == "<ide_selection>no path here</ide_selection>"
OpenedFileText ==
    "<ide_opened_file>The user opened the file /w/src/c.ts in the IDE.</ide_opened_file>"
StdoutText == "<local-command-stdout> done </local-command-stdout>"
StderrText ==
    "<local-command-stdout>out</local-command-stdout><local-command-stderr>bad\n</local-command-stderr>"
CommandText == "<command-name>/review</command-name><command-args> src </command-args>"
CommandNoArgsText == "<command-message>x</command-message><command-name> /clear </command-name>"
CommandEmptyText == "<command-name> </command-name>"

Hook(body) == "<post-tool-use-hook>" \o body \o "</post-tool-use-hook>"
Diagnostics(json) == Hook("<ide_diagnostics>" \o json \o "</ide_diagnostics>")
HookArrayText ==
    Diagnostics("[{\"filePath\":\"/w/a.ts\",\"line\":3,\"message\":\"oops\"}, {\"line\":0}]")
HookEmptyArrayText == Diagnostics(" [ ] ")
HookNoTagText == Hook("nothing to report")
HookBadJsonText == Diagnostics("[{\"line\":3},")
HookObjectText == Diagnostics("{\"line\":3}")
HookNumberText == Diagnostics("42")
HookNullEntryText == Diagnostics("[{\"line\":3}, null]")
HookUnclosedText == "<post-tool-use-hook><ide_diagnostics>[]</ide_diagnostics>"

\* the texts with the markup of one rule, or of none
SingleRuleTexts ==
    {"[Request interrupted by user]", "[Request interrupted by user for tool use]",
     SelectionRangeText, SelectionLineText, SelectionPlainText, SelectionZeroText,
     SelectionBareText, OpenedFileText, StdoutText, StderrText,
     HookArrayText, HookEmptyArrayText, HookNoTagText, HookBadJsonText,
     HookObjectText, HookNumberText, HookNullEntryText, HookUnclosedText,
     CommandText, CommandNoArgsText, CommandEmptyText,
     TOOL_REJECTION_MARKER, TOOL_REJECTION_PREFIX \o "not now",
     "hello world", "", " [Request interrupted by user]", "toString", "constructor"}

\* the texts with the markup of two rules
TwoRuleTexts ==
    {SelectionRangeText \o CommandText,
     SelectionPlainText \o OpenedFileText,
     SelectionBareText \o CommandText,
     OpenedFileText \o StdoutText,
     StdoutText \o HookArrayText,
     HookArrayText \o CommandText,
     HookBadJsonText \o CommandText,
     TOOL_REJECTION_PREFIX \o CommandText,
     TOOL_REJECTION_PREFIX \o OpenedFileText}

Texts == SingleRuleTexts \cup TwoRuleTexts

TextFragment(text) == [type |-> "text", text |-> text]

OtherFragments ==
    {Null,
     [type |-> "text"],
     [type |-> "text", value |-> "from value"],
     [type |-> "thinking", thinking |-> "hm"],
     [type |-> "thinking"],
     [type |-> "redacted_thinking", data |-> "xx"],
     [type |-> "image", source |-> "png"],
     [type |-> "document", title |-> "t"],
     [type |-> "tool_use", id |-> "tu1", name |-> "Read"],
     [type |-> "tool_result", tool_use_id |-> "tu1", content |-> "ok"],
     [type |-> "server_tool_use"]}

Fragments == {TextFragment(t) : t \in Texts} \cup OtherFragments

\* the fragments the longer contents are made of
MixFragments ==
    {TextFragment("hello world"), TextFragment(TOOL_REJECTION_MARKER),
     TextFragment(SelectionPlainText), [type |-> "redacted_thinking", data |-> "xx"],
     [type |-> "thinking", thinking |-> "hm"]}

Contents ==
    {<<>>} \cup {<<f>> : f \in Fragments}
        \cup UNION {[1..n -> MixFragments] : n \in 2..MaxFragments}

ParseInit ==
    /\ ServiceInit
    /\ backlog = 0
    /\ messageHandler = FALSE
    /\ SelectionInit
    /\ rawContent \in Contents
    /\ blocks = <<>>
    /\ returned = FALSE

\* one call parseMessageContent(rawContent)
Parse ==
    /\ ~ returned
    /\ blocks' = parseMessageContent(rawContent)
    /\ returned' = TRUE
    /\ UNCHANGED rawContent
    /\ UNCHANGED <<webviews, readyWebviews, webviewConfigs, pendingMessages,
                   editorPanels, hostState, bootstrap, focused, posted, handed,
                   evicted, untracked, raised, backlog>>
    /\ UNCHANGED <<handlerVars, selectionVars>>

ParseNext == Parse

ParseSpec == ParseInit /\ [][ParseNext]_vars

\* ------------------------------------------------------------ properties
\* a registered target configured as host = sidebar, page = chat
ChatTarget(w) ==
    /\ w \in webviews
    /\ w \in DOMAIN webviewConfigs
    /\ webviewConfigs[w].host = "sidebar"
    /\ webviewConfigs[w].page = "chat"

ReadyChatTargets == {w \in Handles : ChatTarget(w) /\ w \in readyWebviews}

Envelope(m) == [type |-> "from-extension", message |-> m]

Last(s) == s[Len(s)]

HandedAnywhere == UNION {Range(handed[w]) : w \in Handles}

Situations(p) ==
    (IF p \in HandedAnywhere THEN 1 ELSE 0)
    + (IF p \in Range(pendingMessages) THEN 1 ELSE 0)
    + (IF p \in evicted THEN 1 ELSE 0)

\* the step is a postMessage call in which exactly the sends to throws throw
PostStep(throws) == PostMessage(throws)

\* the step is an inbound message from w
InboundStep(w) ==
    \E failAt \in [FlushTargets(readyWebviews \cup {w}, webviewConfigs)
                     -> FailPoints(Len(pendingMessages))] :
        ReceiveMessage(w, failAt)

\* the step is an inbound message from w during which no send throws
InboundStepNoThrow(w) ==
    ReceiveMessage(w, [h \in Handles |-> 0])

\* C1: every message accepted by postMessage is in exactly one of three
\* situations: handed to at least one target, still in the pending buffer, or
\* shifted out of the full buffer; nothing else makes it disappear.
C1_AcceptedNeverLost ==
    \A i \in 1..Len(posted) : Situations(Envelope(posted[i])) = 1

\* C2: postMessage(m) appends the envelope of m to the pending buffer exactly
\* when no send of the call succeeded (no webview registered, no registered
\* webview ready and addressed as sidebar/chat, or every attempted send threw);
\* when a send succeeded the buffer is left as it was.
C2_BufferedIffNoSendSucceeded ==
    [][\A throws \in SUBSET PostTargets(webviews, readyWebviews, webviewConfigs) :
         (Len(posted') = Len(posted) + 1 /\ PostStep(throws)) =>
           LET m == Message(Len(posted) + 1)
               noSend == \/ webviews = {}
                         \/ ReadyChatTargets = {}
                         \/ ReadyChatTargets \subseteq throws
               n == Len(pendingMessages')
               appended ==
                   /\ n >= 1
                   /\ pendingMessages'[n] = Envelope(m)
                   /\ \/ SubSeq(pendingMessages', 1, n - 1) = pendingMessages
                      \/ SubSeq(pendingMessages', 1, n - 1) = Tail(pendingMessages)
           IN  /\ noSend <=> (\A w \in Handles : handed'[w] = handed[w])
               /\ noSend => appended
               /\ ~ noSend => pendingMessages' = pendingMessages
      ]_vars

\* a call whose only attempted send threw has buffered its message: the target
\* took the message before it, is evicted although its host object is alive,
\* and the buffer holds just the message of the call
C2_Witness ==
    \E w \in Handles :
        /\ w \in untracked /\ hostState[w] = "live"
        /\ Len(posted) >= 2 /\ handed[w] # <<>>
        /\ Last(handed[w]) = Envelope(posted[Len(posted) - 1])
        /\ pendingMessages = <<Envelope(Last(posted))>>

\* C3: when a registered sidebar/chat target sends its first inbound message
\* while the buffer holds b1..bn and no send throws, the target is handed
\* exactly b1..bn in that order, each once, and the buffer is empty afterwards.
C3_FirstMessageReplaysBuffer ==
    [][\A w \in Handles :
         (ChatTarget(w) /\ w \notin readyWebviews /\ InboundStepNoThrow(w)) =>
           /\ handed'[w] = handed[w] \o pendingMessages
           /\ pendingMessages' = <<>>
      ]_vars

\* the whole startup backlog has been replayed to a target, nothing posted since
C3_Witness ==
    /\ backlog > 0 /\ Len(posted) = backlog
    /\ pendingMessages = <<>>
    /\ \E w \in readyWebviews :
          handed[w] = [i \in 1..backlog |-> Envelope(posted[i])]

\* C4: the payloads handed to a target are in post order: a message posted
\* earlier is never handed to it after a message posted later, replayed
\* messages come before the messages posted after the replay.
C4_HandedInPostOrder ==
    \A w \in Handles :
        \A i \in 1..(Len(handed[w]) - 1) :
            handed[w][i].message.id <= handed[w][i + 1].message.id

\* a target took a replay and then messages posted after it
C4_Witness ==
    \E w \in Handles : Len(handed[w]) > MAX_PENDING_MESSAGES

\* C5: the buffer never holds more than 50 entries; enqueueing onto a buffer
\* of 50 removes exactly the oldest entry and keeps the order of the rest, so
\* after k > 50 consecutive buffered posts with no target ever ready the buffer
\* holds exactly the 50 most recently posted messages in post order.
C5_BufferBounded ==
    /\ [](Len(pendingMessages) <= 50)
    /\ [][\A throws \in SUBSET PostTargets(webviews, readyWebviews, webviewConfigs) :
            (Len(pendingMessages) = 50 /\ Len(posted') = Len(posted) + 1
               /\ PostStep(throws) /\ pendingMessages' # pendingMessages) =>
              /\ Len(pendingMessages') = 50
              /\ \A i \in 1..49 : pendingMessages'[i] = pendingMessages[i + 1]
              /\ pendingMessages'[50] = Envelope(Message(Len(posted) + 1))
         ]_vars
    /\ []((readyWebviews = {} /\ untracked = {} /\ Len(posted) > 50) =>
            pendingMessages =
              [i \in 1..50 |-> Envelope(posted[Len(posted) - 50 + i])])

\* more than 50 posts in a row were buffered, the last ones while a target
\* was registered and not ready
C5_Witness ==
    /\ Len(posted) > 50 /\ Len(pendingMessages) = 50
    /\ readyWebviews = {} /\ untracked = {} /\ webviews # {}

C7_ThrowingTargetEvicted ==
    [][\A throws \in (SUBSET PostTargets(webviews, readyWebviews, webviewConfigs)) \ {{}} :
         (Len(posted') = Len(posted) + 1 /\ PostStep(throws)) =>
           /\ raised' = FALSE
           /\ \A w \in ReadyChatTargets :
                IF w \in throws
                THEN /\ w \notin webviews'
                     /\ w \notin readyWebviews'
                     /\ w \notin DOMAIN webviewConfigs'
                     /\ handed'[w] = handed[w]
                ELSE handed'[w] =
                       Append(handed[w], Envelope(Message(Len(posted) + 1)))
      ]_vars

\* one target was evicted by the throw of the latest call, another one took
\* the message of that call
C7_Witness ==
    \E w1, w2 \in Handles :
        /\ w1 # w2
        /\ w1 \in untracked /\ hostState[w1] = "live"
        /\ w1 \notin webviews /\ w1 \notin readyWebviews
        /\ Len(posted) >= 2 /\ handed[w1] # <<>> /\ handed[w2] # <<>>
        /\ Last(handed[w1]) = Envelope(posted[Len(posted) - 1])
        /\ Last(handed[w2]) = Envelope(Last(posted))
        /\ raised = FALSE

\* C8: a target that was removed from tracking (dispose callback, or eviction
\* after a delivery failure) is absent from the registered set, the ready set
\* and the config map, and nothing puts it back.
C8_RemovedStaysRemoved ==
    \A w \in untracked :
        /\ w \notin webviews
        /\ w \notin readyWebviews
        /\ w \notin DOMAIN webviewConfigs

\* the targets tracked for a key of openEditorPage
TrackedFor(wv, cfg, key) ==
    {w \in wv : w \in DOMAIN cfg /\ cfg[w].host = "editor" /\ cfg[w].id = key}

\* C9: openEditorPage for a key whose panel is live creates and registers no
\* new target and re-focuses the existing panel, so that exactly one target is
\* tracked for the key afterwards.
C9_OpenEditorPageIdempotent ==
    [][\A page \in Pages, instanceId \in InstanceIds :
         LET key == KeyOf(page, instanceId)
         IN  (/\ OpenEditorPage(page, instanceId)
              /\ key \in DOMAIN editorPanels
              /\ hostState[editorPanels[key]] = "live") =>
               /\ hostState' = hostState
               /\ webviews' = webviews
               /\ editorPanels' = editorPanels
               /\ focused' = editorPanels[key]
               /\ Cardinality(TrackedFor(webviews', webviewConfigs', key)) = 1
      ]_vars

\* C10: when openEditorPage finds a panel under the key whose reveal throws,
\* the error does not reach the caller, a fresh target is created and tracked
\* under the key, and the stale target is referenced by no tracking set or map
\* afterwards.
C10_StaleHandleDiscarded ==
    [][\A page \in Pages, instanceId \in InstanceIds :
         LET key == KeyOf(page, instanceId)
             stale == editorPanels[key]
             fresh == editorPanels'[key]
         IN  (/\ OpenEditorPage(page, instanceId)
              /\ key \in DOMAIN editorPanels
              /\ hostState[editorPanels[key]] # "live") =>
               /\ raised' = FALSE
               /\ key \in DOMAIN editorPanels'
               /\ fresh # stale
               /\ hostState[fresh] = "none" /\ hostState'[fresh] = "live"
               /\ fresh \in webviews'
               /\ stale \notin webviews'
               /\ stale \notin readyWebviews'
               /\ stale \notin DOMAIN webviewConfigs'
               /\ \A k \in DOMAIN editorPanels' : editorPanels'[k] # stale
      ]_vars

\* ----------------------------------------- properties of the selection path
\* the payload is a selection_changed request whose selection has autoInclude
AutoIncludePayload(p) ==
    /\ "request" \in DOMAIN p.message
    /\ p.message.request.type = "selection_changed"
    /\ p.message.request.selection # Null
    /\ "autoInclude" \in DOMAIN p.message.request.selection
    /\ p.message.request.selection.autoInclude = TRUE

\* a payload of that kind is handed to some target in the step
HandsAutoInclude ==
    \E w \in Handles :
        \E i \in (Len(handed[w]) + 1)..Len(handed'[w]) :
            AutoIncludePayload(handed'[w][i])

\* the step is a call of the service alone: a post of the agent or an inbound
\* message of a webview
BridgeStep ==
    \/ \E throws \in SUBSET PostTargets(webviews, readyWebviews, webviewConfigs) :
          PostStep(throws)
    \/ \E w \in Handles : InboundStep(w)

\* C11: the delivery bridge clears the pending auto-include flag when, and
\* only when, a selection_changed payload whose selection has autoInclude is
\* handed to a target, in postMessage or during a flush; buffering such a
\* payload, evicting it or emptying the buffer leaves the flag as it was.
C11_ClearedOnDeliveryOnly ==
    [][/\ HandsAutoInclude => ~ selectionState'.pendingAutoInclude
       /\ (BridgeStep /\ ~ HandsAutoInclude) => selectionState' = selectionState
       /\ \A editor \in Editors,
             throws \in SUBSET PostTargets(webviews, readyWebviews, webviewConfigs) :
            (~ syncReturnsEarly(editor) /\ SyncSelection(editor, FALSE, throws)) =>
               selectionState' =
                  set(selectionState, buildSelectionRange(editor), FALSE)
       /\ \A editor \in SelectingEditors,
             throws \in SUBSET PostTargets(webviews, readyWebviews, webviewConfigs) :
            (~ HandsAutoInclude /\ SyncSelection(editor, TRUE, throws)) =>
               /\ selectionState'.pendingAutoInclude
               /\ selectionState'.lastSelection = buildSelectionRange(editor)
      ]_vars

\* a buffered auto-include request was handed to the view by a replay, after a
\* plain request, and nothing is pending any more
C11_Witness ==
    \E w \in Handles :
        /\ Len(handed[w]) >= 2
        /\ ~ AutoIncludePayload(handed[w][1])
        /\ AutoIncludePayload(handed[w][2])
        /\ selectionState.lastSelection # Null
        /\ ~ selectionState.pendingAutoInclude
        /\ pendingMessages = <<>>

\* the six fields a signature is made of
Signature(selection) ==
    <<selection.filePath, selection.startLine, selection.endLine,
      selection.startColumn, selection.endColumn, selection.selectedText>>

\* the calls after the i-th are no set calls
NoSetAfter(i) == \A j \in (i + 1)..Len(calls) : calls[j].op # "set"

\* C12: after set(S, {autoInclude: true}) the first consume() returns a copy
\* of S carrying autoInclude = true and clears the pending state; every further
\* consume() with no set in between returns S without the autoInclude flag.
C12_FireOnce ==
    \A i \in 1..Len(calls) : \A S \in Selections :
        (calls[i] = SetCall(S, TRUE) /\ i < Len(calls)
           /\ calls[i + 1] = ConsumeCall /\ NoSetAfter(i)) =>
            /\ ~ selectionState.pendingAutoInclude
            /\ selectionState.lastSelection = S
            /\ Len(calls) = i + 1 =>
                 /\ consumed = [f \in (DOMAIN S) \cup {"autoInclude"} |->
                                   IF f = "autoInclude" THEN TRUE ELSE S[f]]
            /\ (Len(calls) > i + 1 /\ Last(calls) = ConsumeCall) => consumed = S

\* set(S, autoInclude) followed by two consume() calls, the second of which
\* returned S as it was set
C12_Witness ==
    \E S \in Selections :
        /\ calls = <<SetCall(S, TRUE), ConsumeCall, ConsumeCall>>
        /\ consumed = S
        /\ "autoInclude" \notin DOMAIN consumed

\* the selection of the latest set(..., {autoInclude: true})
PendingSelection ==
    LET I == {i \in 1..Len(calls) :
                calls[i].op = "set" /\ calls[i].autoInclude
                  /\ calls[i].selection # Null}
        last == CHOOSE i \in I : \A j \in I : j <= i
    IN  calls[last].selection

\* C13: set(selection) without autoInclude stores the selection; it clears a
\* pending auto-include exactly when the six fields of the selection differ
\* from those of the pending selection, so that setting the pending selection
\* again leaves hasPendingAutoInclude() true.
C13_SetClearsOnDifferentSelection ==
    [][\A selection \in Selections :
         Set(selection, FALSE) =>
           /\ selectionState'.lastSelection = selection
           /\ ~ selectionState.pendingAutoInclude =>
                ~ selectionState'.pendingAutoInclude
           /\ selectionState.pendingAutoInclude =>
                (selectionState'.pendingAutoInclude <=>
                   Signature(selection) = Signature(PendingSelection))
      ]_vars

\* the editor events that yield no selection
NoSelectionEditors == {e \in Editors : buildSelectionRange(e) = Null}

\* C14: while an auto-include is pending, an editor event that yields no
\* selection (the active editor is not selectable, or the selection of a file
\* editor was cleared) neither nulls the stored selection nor cancels the
\* pending auto-include; with nothing pending it nulls the stored selection.
C14_PendingSurvivesNoSelection ==
    [][\A editor \in NoSelectionEditors, throws \in SUBSET Handles :
         SyncSelection(editor, FALSE, throws) =>
           IF selectionState.pendingAutoInclude
           THEN /\ selectionState'.lastSelection = selectionState.lastSelection
                /\ selectionState'.pendingAutoInclude
           ELSE selectionState'.lastSelection = Null
      ]_vars

\* C15: an inbound message of a registered target is given to the registered
\* handler unchanged and once; only the first inbound message of the target
\* adds it to the ready set and replays the buffer, and marking and replay are
\* complete when the handler is called.
C15_ForwardedOnceAfterReady ==
    [][\A w \in Handles :
         (InboundStep(w) /\ w \in webviews /\ messageHandler) =>
           /\ Len(forwarded') = Len(forwarded) + 1
           /\ SubSeq(forwarded', 1, Len(forwarded)) = forwarded
           /\ Last(forwarded').from = w
           /\ Last(forwarded').message = [type |-> "event", id |-> Len(forwarded) + 1]
           /\ Last(forwarded').ready = (w \in readyWebviews')
           /\ Last(forwarded').pending = Len(pendingMessages')
           /\ IF w \in readyWebviews
              THEN /\ readyWebviews' = readyWebviews
                   /\ pendingMessages' = pendingMessages
                   /\ handed' = handed
              ELSE /\ w \in readyWebviews' \/ w \in untracked'
                   /\ pendingMessages' = <<>>
      ]_vars

\* the view sent two messages: the handler saw it ready both times, the first
\* message replayed the buffer to it, the second replayed nothing
C15_Witness ==
    \E w \in Handles :
        /\ w \in webviews /\ w \in readyWebviews
        /\ Len(forwarded) = 2
        /\ forwarded[1].from = w /\ forwarded[2].from = w
        /\ forwarded[1].ready /\ forwarded[2].ready
        /\ forwarded[1].message.id = 1 /\ forwarded[2].message.id = 2
        /\ Len(handed[w]) = Len(posted) /\ posted # <<>>

\* ------------------------------------------ properties of the parser
\* the text parseBlock reads from a text fragment
TextOf(raw) == FieldOf(raw, "text", FieldOf(raw, "value", ""))

IsTextFragment(raw) == raw # Null /\ raw.type = "text"

\* a fragment that is meant to give no block
Silent(raw) ==
    /\ raw # Null
    /\ \/ raw.type = "redacted_thinking"
       \/ /\ raw.type = "text"
          /\ \/ TextOf(raw) = TOOL_REJECTION_MARKER
             \/ startsWith(TextOf(raw), TOOL_REJECTION_PREFIX)

\* the fragments that gave a block, and the number of them among the first i
Yielding == {i \in 1..Len(rawContent) : parseBlock(rawContent[i]) # <<>>}
YieldingUpTo(i) == Cardinality({j \in Yielding : j <= i})

\* C16: every fragment gives zero or one block, the blocks stand in the order
\* of the fragments they came from (so there are never more blocks than
\* fragments), and a fragment gives no block only if it is a
\* redacted_thinking fragment or a text fragment that is the tool-rejection
\* marker or starts with the reason-prefixed one.
C16_ZeroOrOneInOrder ==
    returned =>
        /\ Len(blocks) <= Len(rawContent)
        /\ \A i \in 1..Len(rawContent) : Len(parseBlock(rawContent[i])) <= 1
        /\ Len(blocks) = Cardinality(Yielding)
        /\ \A i \in Yielding :
              blocks[YieldingUpTo(i)] = parseBlock(rawContent[i])[1]
        /\ \A i \in 1..Len(rawContent) :
              i \notin Yielding => Silent(rawContent[i])

\* a content of three fragments has been parsed: the one in the middle gave
\* no block and the two around it gave different blocks
C16_Witness ==
    /\ returned
    /\ Len(rawContent) = 3
    /\ Yielding = {1, 3}
    /\ Len(blocks) = 2
    /\ blocks[1] # blocks[2]
    /\ blocks[1].type = "text"
    /\ blocks[2].type = "selection"

\* the rules of the text heuristics as they are listed, each with what it
\* gives when it matches
RuleMatches(k, text) ==
    CASE k = 1 -> text \in DOMAIN INTERRUPT_MESSAGES
      [] k = 2 -> includes(text, "<ide_selection>") /\ parseSelection(text) # Null
      [] k = 3 -> includes(text, "<ide_opened_file>") /\ parseOpenedFile(text) # Null
      [] k = 4 -> /\ \/ includes(text, "<local-command-stderr>")
                     \/ includes(text, "<local-command-stdout>")
                  /\ parseSlashCommandResult(text) # Null
      [] k = 5 -> includes(text, "<post-tool-use-hook>") /\ parseDiagnostics(text) # Null
      [] k = 6 -> parseSlashCommandText(text) # ""
      [] k = 7 -> text = TOOL_REJECTION_MARKER \/ startsWith(text, TOOL_REJECTION_PREFIX)
      [] OTHER -> TRUE

RuleGives(k, text) ==
    CASE k = 1 -> <<[type |-> "interrupt", message |-> text,
                     friendlyMessage |-> INTERRUPT_MESSAGES[text]]>>
      [] k = 2 -> <<parseSelection(text)>>
      [] k = 3 -> <<parseOpenedFile(text)>>
      [] k = 4 -> <<parseSlashCommandResult(text)>>
      [] k = 5 -> <<parseDiagnostics(text)>>
      [] k = 6 -> <<[type |-> "text", text |-> parseSlashCommandText(text),
                     isSlashCommand |-> TRUE]>>
      [] k = 7 -> <<>>
      [] OTHER -> <<createTextBlock(text)>>

FirstRule(text) == Least({k \in 1..8 : RuleMatches(k, text)})

\* C17: for a text fragment the rules are tried in the order interruption
\* marker, selection, opened file, local-command result, post-tool-use-hook
\* diagnostics, command-name slash command, tool-rejection drop, plain text,
\* and the first rule that matches gives the output.
C17_FirstMatchingRuleWins ==
    returned /\ Len(rawContent) = 1 /\ IsTextFragment(rawContent[1]) =>
        blocks = RuleGives(FirstRule(TextOf(rawContent[1])),
                           TextOf(rawContent[1]))

\* a text that holds none of the recognized markers
NoMarker(text) ==
    /\ text \notin DOMAIN INTERRUPT_MESSAGES
    /\ ~ includes(text, "<ide_selection>")
    /\ ~ includes(text, "<ide_opened_file>")
    /\ ~ includes(text, "<local-command-stderr>")
    /\ ~ includes(text, "<local-command-stdout>")
    /\ ~ includes(text, "<post-tool-use-hook>")
    /\ ~ includes(text, "<command-name>")
    /\ text # TOOL_REJECTION_MARKER
    /\ ~ startsWith(text, TOOL_REJECTION_PREFIX)

\* C18: a text fragment whose text holds none of the recognized markers gives
\* exactly one block of type text, with the text unchanged and without an
\* isSlashCommand flag.
C18_PlainTextUnchanged ==
    returned /\ Len(rawContent) = 1 /\ IsTextFragment(rawContent[1])
             /\ NoMarker(TextOf(rawContent[1])) =>
        blocks = <<[type |-> "text", text |-> TextOf(rawContent[1])]>>

\* the label a selection block is to have for its text
ExpectedLabel(block, text) ==
    IF linesMatch(text) # Null
    THEN Basename(block.filePath) \o "#" \o ToString(parseInt(linesMatch(text).from))
            \o "-" \o ToString(parseInt(linesMatch(text).to))
    ELSE IF singleLineMatch(text) # Null
    THEN Basename(block.filePath) \o "#" \o ToString(parseInt(singleLineMatch(text).line))
    ELSE Basename(block.filePath)

\* C19: the selection text "... from src/a.ts: lines 3 to 7\nfoo\nbar\n   This
\* may or may not be related ..." gives one selection block with filePath
\* "src/a.ts", startLine 3, endLine 7, label "a.ts#3-7" and selectedText
\* "foo\nbar"; and the label of every selection block is basename#N-M when a
\* line range was found, basename#N when a single line was found, and the
\* basename otherwise.
C19_SelectionExampleAndLabel ==
    returned /\ Len(rawContent) = 1 /\ IsTextFragment(rawContent[1]) =>
        /\ TextOf(rawContent[1]) = SelectionRangeText =>
              blocks = <<[type |-> "selection", filePath |-> "src/a.ts",
                          startLine |-> 3, endLine |-> 7, label |-> "a.ts#3-7",
                          selectedText |-> "foo\nbar"]>>
        /\ blocks # <<>> /\ blocks[1].type = "selection" =>
              blocks[1].label = ExpectedLabel(blocks[1], TextOf(rawContent[1]))

\* the hook of a text holds an ide_diagnostics tag whose body is a JSON array
HookHoldsArray(text) ==
    LET hookMatch == TagMatch(text, "<post-tool-use-hook>", "</post-tool-use-hook>")
        diagnosticsMatch == TagMatch(hookMatch.body, "<ide_diagnostics>",
                                     "</ide_diagnostics>")
    IN  /\ hookMatch # Null
        /\ diagnosticsMatch # Null
        /\ JsonParse(diagnosticsMatch.body) # Null
        /\ JsonParse(diagnosticsMatch.body).kind = "array"

\* C20: a text fragment with a post-tool-use-hook block gives a diagnostics
\* block only when the hook holds an ide_diagnostics tag whose body parses as
\* a JSON array; otherwise no diagnostics block is given, the call returns,
\* and where no earlier rule matched the later rules give the output: the
\* text unchanged when none of them matches.
C20_DiagnosticsOnlyFromArray ==
    returned /\ Len(rawContent) = 1 /\ IsTextFragment(rawContent[1])
             /\ includes(TextOf(rawContent[1]), "<post-tool-use-hook>") =>
        LET text == TextOf(rawContent[1])
        IN  /\ (\E i \in 1..Len(blocks) : blocks[i].type = "diagnostics")
                  => HookHoldsArray(text)
            /\ ~ HookHoldsArray(text) /\ (\A k \in 1..4 : ~ RuleMatches(k, text)) =>
                  blocks = IF RuleMatches(6, text) THEN RuleGives(6, text)
                           ELSE IF RuleMatches(7, text) THEN RuleGives(7, text)
                           ELSE <<createTextBlock(text)>>

\* a hook whose ide_diagnostics body is not valid JSON has been parsed, and
\* the text came back unchanged
C20_Witness ==
    /\ returned
    /\ rawContent = <<TextFragment(HookBadJsonText)>>
    /\ JsonParse(TagMatch(HookBadJsonText, "<ide_diagnostics>",
                          "</ide_diagnostics>").body) = Null
    /\ blocks = <<createTextBlock(HookBadJsonText)>>

\* ------------------------------------- further properties of the bridge
\* the targets a flush started by the first message of w replays to
ReplayTargets(w) ==
    {t \in readyWebviews \cup {w} :
        /\ t \in DOMAIN webviewConfigs
        /\ webviewConfigs[t].host = "sidebar"
        /\ webviewConfigs[t].page \in {"", "chat"}}

C23_NoBufferWhileDeliverable ==
    pendingMessages # <<>> => ReadyChatTargets = {}

\* a message is buffered after the only ready target threw and was evicted,
\* while a second sidebar view is registered and not ready yet
C23_Witness ==
    \E w1, w2 \in Handles :
        /\ w1 # w2
        /\ w1 \in untracked /\ handed[w1] # <<>>
        /\ ChatTarget(w2) /\ w2 \notin readyWebviews
        /\ pendingMessages # <<>>
        /\ Last(pendingMessages) = Envelope(Last(posted))

\* the keys openEditorPage is called with
Keys == {KeyOf(page, instanceId) : page \in Pages, instanceId \in InstanceIds}

\* the editor panels created under the key that the host has not disposed
LivePanels(key) ==
    {p \in Handles : /\ hostState[p] = "live"
                     /\ bootstrap[p].host = "editor"
                     /\ bootstrap[p].id = key}

\* C24: for every key, the entry of the editor-panel map is the panel created
\* last under the key among those not disposed, so that at most one such
\* panel exists; and a dispose callback takes out of the map no entry but
\* that of its own panel.
C24_EntryIsNewestLivePanel ==
    /\ [](\A key \in Keys :
            LivePanels(key) # {} =>
               /\ key \in DOMAIN editorPanels
               /\ editorPanels[key] = Greatest(LivePanels(key))
               /\ Cardinality(LivePanels(key)) = 1)
    /\ [][\A w \in Handles :
            OnDidDispose(w) =>
               \A key \in DOMAIN editorPanels :
                  editorPanels[key] # w =>
                     /\ key \in DOMAIN editorPanels'
                     /\ editorPanels'[key] = editorPanels[key]
         ]_vars

\* C26: no payload is handed to a webview twice, and a payload that was
\* handed to some webview is not in the buffer, so that no later flush
\* replays it.
C26_HandedAtMostOnce ==
    /\ \A w \in Handles : Cardinality(Range(handed[w])) = Len(handed[w])
    /\ Range(pendingMessages) \cap HandedAnywhere = {}

\* a view took the replay of a buffered message and then a message posted
\* directly, which a second view that became ready in between took as well
C26_Witness ==
    \E w1, w2 \in Handles :
        /\ w1 # w2 /\ backlog = 0 /\ Len(posted) = 2
        /\ handed[w1] = <<Envelope(posted[1]), Envelope(posted[2])>>
        /\ handed[w2] = <<Envelope(posted[2])>>
        /\ pendingMessages = <<>>

\* ------------------------------ further properties of the selection wiring
\* C22 as stated: a selection event whose selection equals, field by field
\* (or both null), the selection of the event before it results in no
\* postMessage call, unless it is a forced auto-include request, which is
\* always posted.
C22_ConsecutiveEqualEvents ==
    [][\A editor \in Editors, autoInclude \in BOOLEAN :
         \A throws \in SUBSET PostTargets(webviews, readyWebviews, webviewConfigs) :
            (/\ synced.event = buildSelectionRange(editor)
             /\ SyncSelection(editor, autoInclude, throws)) =>
               IF buildSelectionRange(editor) # Null /\ autoInclude
               THEN posted' = Append(posted,
                        SelectionChanged(Len(posted) + 1,
                            WithAutoInclude(buildSelectionRange(editor))))
               ELSE posted' = posted
      ]_vars

\* C22, amended: a selection event that the pending auto-include does not
\* make syncSelection ignore is posted when it is a forced auto-include
\* request; otherwise it is posted exactly when its selection differs, in one
\* of the six fields or in being null, from the selection of the last event
\* that was not ignored. An ignored event posts nothing.
C22_DedupAgainstLastUpdate ==
    [][\A editor \in Editors, autoInclude \in BOOLEAN :
         \A throws \in SUBSET PostTargets(webviews, readyWebviews, webviewConfigs) :
            (/\ synced'.event = buildSelectionRange(editor)
             /\ SyncSelection(editor, autoInclude, throws)) =>
               IF syncReturnsEarly(editor)
               THEN posted' = posted
               ELSE IF buildSelectionRange(editor) # Null /\ autoInclude
               THEN posted' = Append(posted,
                        SelectionChanged(Len(posted) + 1,
                            WithAutoInclude(buildSelectionRange(editor))))
               ELSE IF synced.update = buildSelectionRange(editor)
               THEN posted' = posted
               ELSE posted' = Append(posted,
                        SelectionChanged(Len(posted) + 1,
                            buildSelectionRange(editor)))
      ]_vars

\* a forced auto-include request was posted, and the event after it, of the
\* same selection and not forced, posted nothing
C22_Witness ==
    /\ posted # <<>>
    /\ synced.before = Len(posted)
    /\ synced.event # Null /\ synced.event # NoEvent
    /\ Last(posted) =
          SelectionChanged(Len(posted), WithAutoInclude(synced.event))

\* the posted messages that are flagged selection_changed requests
FlaggedPosts ==
    {i \in 1..Len(posted) : IsAutoIncludeRequest(Envelope(posted[i]))}

\* C25: when one forced auto-include request has been made, the auto-include
\* signal is seen at most once: never has a consume() call returned a
\* selection flagged autoInclude while the flagged request was handed to a
\* webview as well.
C25_AutoIncludeSeenOnce ==
    Cardinality(FlaggedPosts) = 1 =>
       ~ (/\ consumed # Null /\ "autoInclude" \in DOMAIN consumed
          /\ \E w \in Handles, i \in FlaggedPosts :
                Envelope(posted[i]) \in Range(handed[w]))

\* ------------------------------- further properties of the SelectionState
\* C27: after any calls of set, consume, clearAutoInclude and getSnapshot,
\* hasPendingAutoInclude() is true exactly when a pending signature is
\* recorded, and then a selection is stored whose signature is the pending
\* signature; and a getSnapshot call returns the stored selection and leaves
\* the SelectionState as it was.
C27_PendingMatchesStored ==
    /\ [](/\ hasPendingAutoInclude(selectionState)
              <=> selectionState.pendingSignature # NoSignature
          /\ hasPendingAutoInclude(selectionState) =>
                /\ selectionState.lastSelection # Null
                /\ selectionState.pendingSignature
                      = serialize(selectionState.lastSelection))
    /\ [][(GetSnapshot /\ Len(calls') = Len(calls) + 1) =>
            /\ selectionState' = selectionState
            /\ Last(calls').snapshot = selectionState.lastSelection
         ]_vars

\* getSnapshot was called while an auto-include was pending, after a set
\* with autoInclude and a set of the same selection without
C27_Witness ==
    \E S \in Selections :
        /\ calls = <<SetCall(S, TRUE), SetCall(S, FALSE), SnapshotCall(S)>>
        /\ hasPendingAutoInclude(selectionState)
        /\ selectionState.pendingSignature = serialize(S)

====
